---- MODULE Spec2Model ----
(***************************************************************************)
(* State-machine model of the fi-mcp-client agent backend:                 *)
(*   - api_server_new.py : worker-pool tool dispatch, Fi MCP gateway with  *)
(*     session re-initialisation, the four workflows and the chat request  *)
(*     that wraps them;                                                    *)
(*   - api_server.py     : the chat loop with the per-session cache of     *)
(*     financial data, the prefetch operation and the context refresh.     *)
(* Remote answers, LLM answers and handler outcomes are nondeterministic.  *)
(***************************************************************************)
EXTENDS Integers, Sequences, FiniteSets, TLC

VARIABLES
    sessions,       \* api_server_new.sessions: session id -> session record
    conversation_contexts, \* api_server_new.conversation_contexts: session id -> ConversationContext
    active_workflows,      \* api_server_new.active_workflows: workflow id -> AgentWorkflow (its session id)
    inits,          \* serial number of the last session dict that initialize_mcp_session stored
    tasks,          \* worker-pool threads running execute_single_tool_sync
    batch,          \* the execute_tools_parallel call the event loop is awaiting
    req,            \* the chat request in progress: orchestrate_agent_workflow and its workflow
    reply,          \* the ChatResponse of the last finished chat request
    chats,          \* number of chat requests accepted so far
    legacy,         \* api_server.py: its session record, its chat request and the clock
    call            \* api_server.py: one execute_mcp_tool call, the answer it gets and its outcome

storeVars  == <<sessions, conversation_contexts, active_workflows, inits>>
poolVars   == <<tasks, batch>>
chatVars   == <<req, reply, chats, call>>
newVars    == <<sessions, conversation_contexts, active_workflows, inits,
               tasks, batch, req, reply, chats, call>>
vars == <<sessions, conversation_contexts, active_workflows, inits,
          tasks, batch, req, reply, chats, legacy, call>>

----------------------------------------------------------------------------
(* Bounds of the model *)

\* most tool calls the LLM puts in one batch
MaxBatch == 2
\* nesting depth at which the interpreter stops execute_mcp_tool's recursion
\* (RecursionError, caught by its own "except Exception")
RecursionLimit == 2

----------------------------------------------------------------------------
(* Payload shapes.  A payload is what a tool handler or the remote service *)
(* returns: a JSON value, of which the code reads "status", "content",    *)
(* "error" and content[0]["text"].                                        *)

\* texts a content item can carry; NonString stands for a "text" that is not a str
TextLogin  == "{\"status\": \"login_required\"}"
TextData1  == "{\"netWorth\": 1}"
TextData2  == "{\"netWorth\": 2}"
TextList   == "[\"login_required\"]"
TextPlain  == "Please login"
NonString  == "<None>"
Texts == {TextLogin, TextData1, TextData2, TextList, TextPlain, NonString}

\* json.loads on the texts above: a dict with its "status", a non-dict JSON value,
\* JSONDecodeError for text that is no JSON, TypeError for a non-str argument
JsonLoads(text) ==
    CASE text = TextLogin -> [outcome |-> "dict", status |-> "login_required"]
      [] text = TextData1 -> [outcome |-> "dict", status |-> "absent"]
      [] text = TextData2 -> [outcome |-> "dict", status |-> "absent"]
      [] text = TextList  -> [outcome |-> "list", status |-> "absent"]
      [] text = NonString -> [outcome |-> "TypeError", status |-> "absent"]
      [] OTHER            -> [outcome |-> "JSONDecodeError", status |-> "absent"]

Items == [isDict : {TRUE}, hasText : {TRUE}, text : Texts]
         \cup {[isDict |-> TRUE, hasText |-> FALSE, text |-> TextPlain],
               [isDict |-> FALSE, hasText |-> FALSE, text |-> TextPlain]}

TextItem(t) == [isDict |-> TRUE, hasText |-> TRUE, text |-> t]

\* a payload: isDict, result.get("status"), "content" in result and its value,
\* "error" in result, and the "tool" key api_server_new adds on HTTP 401
NoneValue == [isDict |-> FALSE, status |-> "absent", hasContent |-> FALSE,
              contentIsList |-> FALSE, content |-> <<>>, hasError |-> FALSE,
              error |-> "", tool |-> ""]

DictPayload(status, hasContent, isList, content) ==
    [isDict |-> TRUE, status |-> status, hasContent |-> hasContent,
     contentIsList |-> isList, content |-> content, hasError |-> FALSE,
     error |-> "", tool |-> ""]

\* {"status": "login_required"}
LoginTop == DictPayload("login_required", FALSE, FALSE, <<>>)
\* {"content": [{"type": "text", "text": "{\"status\": \"login_required\"}"}]}
LoginNested == DictPayload("absent", TRUE, TRUE, <<TextItem(TextLogin)>>)
\* {"content": [{"type": "text", "text": <data>}]}
DataPayload(t) == DictPayload("absent", TRUE, TRUE, <<TextItem(t)>>)
Data1 == DataPayload(TextData1)
Data2 == DataPayload(TextData2)
\* {"error": cause}
ErrorEnvelope(cause) ==
    [isDict |-> TRUE, status |-> "absent", hasContent |-> FALSE,
     contentIsList |-> FALSE, content |-> <<>>, hasError |-> TRUE,
     error |-> cause, tool |-> ""]
\* {"status": "login_required", "tool": tool_name}
LoginWithTool(tool_name) == [LoginTop EXCEPT !.tool = tool_name]

\* is_login_required(result): "True", "False", or the exception that escapes it
\* (json.loads of a non-str raises TypeError, which the except clause does not name)
IsLoginRequiredOutcome(result) ==
    IF ~result.isDict THEN "False"
    ELSE IF result.status = "login_required" THEN "True"
    ELSE IF ~result.hasContent THEN "False"
    ELSE IF ~(result.contentIsList /\ Len(result.content) > 0) THEN "False"
    ELSE LET first_content == result.content[1] IN
         IF ~(first_content.isDict /\ first_content.hasText) THEN "False"
         ELSE LET text_data == JsonLoads(first_content.text) IN
              CASE text_data.outcome = "TypeError" -> "TypeError"
                [] text_data.outcome = "JSONDecodeError" -> "False"
                [] text_data.outcome = "dict" /\ text_data.status = "login_required" -> "True"
                [] OTHER -> "False"

is_login_required(result) == IsLoginRequiredOutcome(result) = "True"

\* "error" in data
HasErrorKey(data) == data.isDict /\ data.hasError

----------------------------------------------------------------------------
(* Tool registry (api_server_new.py) *)

\* [t["name"] for t in FI_TOOL_DEFINITIONS]
FI_TOOL_DEFINITIONS ==
    {"fetch_net_worth", "fetch_credit_report", "fetch_epf_details",
     "fetch_mf_transactions", "fetch_bank_transactions", "fetch_stock_transactions"}

\* the handlers of the Analytic Tool Library and the web search chain
LocalTools == {"web_search", "stock_symbol_search", "stock_analysis", "mutual_fund_analysis"}

\* tool names the LLM asks for in the model: a financial tool, a local tool and a
\* name no handler is registered for
LlmTools == {"fetch_net_worth", "web_search", "no_such_tool"}

get_tool_category(tool_name) ==
    CASE tool_name = "web_search" -> "web_search"
      [] tool_name \in {"stock_symbol_search", "stock_analysis"} -> "market_analysis"
      [] tool_name \in {"mutual_fund_analysis", "fetch_mf_transactions"} -> "portfolio_analysis"
      [] tool_name \in {"fetch_net_worth", "fetch_credit_report", "fetch_epf_details"}
            -> "financial_data"
      [] OTHER -> "web_search"

----------------------------------------------------------------------------
(* Session store (api_server_new.py) *)

SessionIds == {"s1"}

EmptyMap == [x \in {} |-> NoneValue]

\* the ConversationContext initialize_mcp_session builds; oid tells the objects apart
NewContext(oid) ==
    [oid |-> oid, turns |-> <<>>, financial_context |-> EmptyMap,
     n_tool_executions |-> 0, current_workflow |-> "None", agent_state |-> "ready"]

\* the session dict initialize_mcp_session stores; http_session is the serial number
\* of the requests.Session object, which carries the Mcp-Session-Id of that handshake
NewSession(oid) ==
    [http_session |-> oid, authenticated |-> FALSE,
     financial_data |-> EmptyMap, last_auth_check |-> 0,
     total_tool_calls |-> 0, successful_tool_calls |-> 0]

\* answers of the remote service to "initialize"
\* ("exception" covers raise_for_status, a transport error and a body that is no
\* JSON; "ok_empty_header" is a good answer whose Mcp-Session-Id header is empty)
InitResponses == {"ok", "ok_empty_header", "rpc_error", "exception"}

\* the session dict and the conversation context were stored (lines 602-622)
InitStored(resp) == resp \in {"ok", "ok_empty_header"}

\* the mcp_session_id that initialize_mcp_session returns is truthy
InitSucceeds(resp) == resp = "ok"

\* sessions after initialize_mcp_session(session_id)
SessionsAfterInit(session_id, resp) ==
    IF InitStored(resp)
    THEN [s \in DOMAIN sessions \cup {session_id} |->
             IF s = session_id THEN NewSession(inits + 1) ELSE sessions[s]]
    ELSE sessions

\* conversation_contexts after initialize_mcp_session(session_id)
ContextsAfterInit(session_id, resp) ==
    IF InitStored(resp)
    THEN [s \in DOMAIN conversation_contexts \cup {session_id} |->
             IF s = session_id THEN NewContext(inits + 1)
             ELSE conversation_contexts[s]]
    ELSE conversation_contexts

\* initialize_mcp_session(session_id) as a step on the store: the session dict
\* and the conversation context of session_id are REPLACED by new ones
initialize_mcp_session(session_id, resp) ==
    /\ inits' = IF InitStored(resp) THEN inits + 1 ELSE inits
    /\ sessions' = SessionsAfterInit(session_id, resp)
    /\ conversation_contexts' = ContextsAfterInit(session_id, resp)

\* RollBack that deletes nothing
RollBackKeeps(map, session_id) == map

\* lines 1483-1486: if session_id in map: del map[session_id]
RollBack(map, session_id) ==
    [s \in DOMAIN map \ {session_id} |-> map[s]]

\* POST /session/create
CreateSession(session_id, resp) ==
    /\ session_id \notin DOMAIN sessions
    /\ resp \in InitResponses
    /\ IF InitSucceeds(resp)
       THEN /\ inits' = inits + 1
            /\ sessions' = SessionsAfterInit(session_id, resp)
            /\ conversation_contexts' = ContextsAfterInit(session_id, resp)
            /\ reply' = [op |-> "create", status |-> 200, stored |-> TRUE]
       ELSE \* the objects that were stored are deleted again: their serial
            \* number is free for the next ones
            /\ inits' = inits
            /\ sessions' = RollBack(SessionsAfterInit(session_id, resp), session_id)
            /\ conversation_contexts' =
                  RollBack(ContextsAfterInit(session_id, resp), session_id)
            /\ reply' = [op |-> "create", status |-> 500, stored |-> InitStored(resp)]
    /\ UNCHANGED <<active_workflows, tasks, batch, req, chats, legacy, call>>

----------------------------------------------------------------------------
(* Fi MCP gateway: execute_mcp_tool (api_server_new.py) *)

\* payloads the remote service puts in the "result" of a tools/call answer;
\* NoneValue is "result": null
RemoteResults == {Data1, Data2, LoginTop, LoginNested, NoneValue}

\* answers of the remote service (or of the transport) to one tools/call request
McpResponses ==
    [kind : {"200_result"}, result : RemoteResults]
    \cup [kind : {"200_error", "200_neither", "200_bad_json", "401",
                  "400_invalid_session", "400_other", "500", "timeout",
                  "connection_error"},
          result : {NoneValue}]

\* what execute_mcp_tool does with one answer: return a value, or re-initialise
McpClassify(resp, tool_name) ==
    CASE resp.kind = "401" -> [act |-> "return", value |-> LoginWithTool(tool_name)]
      [] resp.kind = "400_invalid_session" -> [act |-> "reinit", value |-> NoneValue]
      [] resp.kind = "400_other" -> [act |-> "return", value |-> ErrorEnvelope("Bad request")]
      [] resp.kind = "500" -> [act |-> "return", value |-> ErrorEnvelope("HTTPError")]
      [] resp.kind = "200_bad_json" -> [act |-> "return", value |-> ErrorEnvelope("JSONDecodeError")]
      [] resp.kind = "200_result" -> [act |-> "return", value |-> resp.result]
      [] resp.kind = "200_error" -> [act |-> "return", value |-> ErrorEnvelope("rpc error")]
      [] resp.kind = "200_neither" ->
            [act |-> "return", value |-> ErrorEnvelope("No valid response received from Fi MCP server")]
      [] resp.kind = "timeout" ->
            [act |-> "return", value |-> ErrorEnvelope("Tool execution timed out")]
      [] resp.kind = "connection_error" ->
            [act |-> "return", value |-> ErrorEnvelope("Connection error")]

----------------------------------------------------------------------------
(* Worker pool: execute_single_tool_sync, one thread per tool call *)

NoError == "None"

\* a ToolExecution; result = NoneValue and error = NoError stand for None
\* (history fields: handler_raised, the handler of this call raised; arrival, the
\* position of this call in the order in which the calls of its batch completed)
ToolExecution(tool_name, result, error, ended, group, raised, arrival) ==
    [tool_name |-> tool_name, category |-> get_tool_category(tool_name),
     result |-> result, error |-> error, end_time_set |-> ended,
     parallel_group |-> group, handler_raised |-> raised, arrival |-> arrival]

\* ToolExecution.is_successful
is_successful(execution) == execution.error = NoError /\ execution.result # NoneValue

\* what a local handler hands back: a content envelope, an error envelope
\* (the handlers catch their own failures), or an exception
HandlerOutcomes ==
    [kind : {"return"}, value : {DataPayload(TextPlain), ErrorEnvelope("handler error")}]
    \cup {[kind |-> "raise", value |-> NoneValue]}

TaskIds == DOMAIN tasks

NewTask(bno, idx, tool_name, session_id) ==
    [bno |-> bno, idx |-> idx, tool_name |-> tool_name, session_id |-> session_id,
     pc |-> "queued", depth |-> 0, sent |-> 0, reinits |-> 0,
     result |-> NoneValue, error |-> NoError, raised |-> FALSE, arrival |-> 0]

\* the awaited batch still waits for task id
Awaited(id) == batch.state = "waiting" /\ batch.bno = id[1]

\* the thread of task id ends with t as its final record; a thread whose batch is
\* no longer awaited (timed out) is simply gone, its ToolExecution unread
FinishTask(id, t) ==
    LET earlier == {i \in TaskIds : i[1] = id[1] /\ tasks[i].pc = "done"} IN
    tasks' = IF Awaited(id)
             THEN [tasks EXCEPT ![id] = [t EXCEPT !.pc = "done",
                                                  !.arrival = Cardinality(earlier) + 1]]
             ELSE [i \in TaskIds \ {id} |-> tasks[i]]

\* lines 405-417: a local handler runs in the thread
RunLocalTool(id, outcome) ==
    /\ id \in TaskIds
    /\ tasks[id].pc = "queued"
    /\ tasks[id].tool_name \in LocalTools
    /\ outcome \in HandlerOutcomes
    /\ FinishTask(id, IF outcome.kind = "return"
                      THEN [tasks[id] EXCEPT !.result = outcome.value]
                      ELSE [tasks[id] EXCEPT !.error = "handler raised", !.raised = TRUE])
    /\ UNCHANGED <<storeVars, batch, chatVars, legacy>>

\* lines 420-421: raise ValueError(f"Unknown tool: {tool_name}"), caught at 426
RunUnknownTool(id) ==
    /\ id \in TaskIds
    /\ tasks[id].pc = "queued"
    /\ tasks[id].tool_name \notin LocalTools \cup FI_TOOL_DEFINITIONS
    /\ FinishTask(id, [tasks[id] EXCEPT !.error = "Unknown tool", !.raised = TRUE])
    /\ UNCHANGED <<storeVars, batch, chatVars, legacy>>

\* execute_mcp_tool up to its answer: the session lookup, one tools/call request
\* and the classification of the answer
McpPost(id, resp) ==
    /\ id \in TaskIds
    /\ tasks[id].pc \in {"queued", "post"}
    /\ tasks[id].tool_name \in FI_TOOL_DEFINITIONS
    /\ resp \in McpResponses
    /\ LET t == tasks[id] IN
       IF t.session_id \notin DOMAIN sessions
       THEN FinishTask(id, [t EXCEPT !.result = ErrorEnvelope("Session not found")])
       ELSE IF t.depth >= RecursionLimit
       THEN FinishTask(id, [t EXCEPT !.result = ErrorEnvelope("RecursionError")])
       ELSE LET c == McpClassify(resp, t.tool_name) IN
            IF c.act = "return"
            THEN FinishTask(id, [t EXCEPT !.result = c.value, !.sent = t.sent + 1])
            ELSE tasks' = [tasks EXCEPT ![id] = [t EXCEPT !.pc = "reinit", !.sent = t.sent + 1]]
    /\ UNCHANGED <<storeVars, batch, chatVars, legacy>>

\* lines 680-685: initialize_mcp_session, then the recursive execute_mcp_tool
McpReinit(id, resp) ==
    /\ id \in TaskIds
    /\ tasks[id].pc = "reinit"
    /\ resp \in InitResponses
    /\ initialize_mcp_session(tasks[id].session_id, resp)
    /\ LET t == tasks[id] IN
       IF InitSucceeds(resp)
       THEN tasks' = [tasks EXCEPT ![id] = [t EXCEPT !.pc = "post", !.depth = t.depth + 1,
                                                     !.reinits = t.reinits + 1]]
       ELSE FinishTask(id, [t EXCEPT
                !.result = ErrorEnvelope("Session expired and failed to reinitialize"),
                !.reinits = t.reinits + 1])
    /\ UNCHANGED <<active_workflows, batch, chatVars, legacy>>

----------------------------------------------------------------------------
(* execute_tools_parallel: submit, gather with the shared timeout *)

IdleBatch == [state |-> "idle", bno |-> 0, calls |-> <<>>, executions |-> <<>>,
              timed_out |-> FALSE]

\* nonempty batches of tool calls the LLM can ask for
ToolBatches == UNION {[1..n -> LlmTools] : n \in 1..MaxBatch}

\* lines 438-440: one run_in_executor per tool call
SubmitBatch(calls, session_id) ==
    /\ batch' = [state |-> "waiting", bno |-> batch.bno + 1, calls |-> calls,
                 executions |-> <<>>, timed_out |-> FALSE]
    /\ tasks' = [id \in TaskIds \cup {<<batch.bno + 1, i>> : i \in 1..Len(calls)} |->
                    IF id \in TaskIds THEN tasks[id]
                    ELSE NewTask(id[1], id[2], calls[id[2]], session_id)]

BatchTasks == {id \in TaskIds : id[1] = batch.bno}

\* the ToolExecution execute_single_tool_sync returned for a finished task
ExecutionOf(t) ==
    ToolExecution(t.tool_name, t.result, t.error, TRUE, t.bno, t.raised, t.arrival)

\* every thread of the awaited batch has returned
CanGather ==
    /\ batch.state = "waiting"
    /\ \A id \in BatchTasks : tasks[id].pc = "done"

\* Gathered with the results taken in the order in which the calls completed
GatheredByArrival ==
    [k \in 1..Len(batch.calls) |->
        ExecutionOf(tasks[CHOOSE id \in BatchTasks : tasks[id].arrival = k])]

\* lines 443-468: the list execute_tools_parallel returns, in request order
Gathered ==
    [i \in 1..Len(batch.calls) |-> ExecutionOf(tasks[<<batch.bno, i>>])]

\* the timeout of asyncio.wait_for fires while some thread is still running
CanTimeout ==
    /\ batch.state = "waiting"
    /\ \E id \in BatchTasks : tasks[id].pc # "done"

\* the threads still running when the batch timed out; they are not stopped
StillRunning == [id \in {i \in TaskIds : tasks[i].pc # "done"} |-> tasks[id]]

\* TimeoutResult with the calls that had completed handed to the caller
TimeoutResultSalvaged ==
    LET finished == {id \in BatchTasks : tasks[id].pc = "done"}
        nth(k) == CHOOSE id \in finished : tasks[id].arrival = k
    IN [k \in 1..Cardinality(finished) |-> ExecutionOf(tasks[nth(k)])]

\* lines 470-472: except asyncio.TimeoutError: return []
TimeoutResult == <<>>

\* gather returned before the timeout
GatherBatch ==
    /\ CanGather
    /\ batch' = [batch EXCEPT !.state = "returned", !.executions = Gathered]
    /\ tasks' = [id \in TaskIds \ BatchTasks |-> tasks[id]]

\* lines 470-472: asyncio.TimeoutError, the caller gets []
TimeoutBatch ==
    /\ CanTimeout
    /\ batch' = [batch EXCEPT !.state = "returned", !.executions = TimeoutResult,
                              !.timed_out = TRUE]
    /\ tasks' = StillRunning

----------------------------------------------------------------------------
(* Chat request: chat_with_agent -> orchestrate_agent_workflow -> workflow *)

MAX_CONTEXT_HISTORY == 10
max_rounds == 3

\* most chat requests in one behaviour
MaxChats == 2
\* most threads of timed-out batches that are still running when a batch times out
MaxStale == 0

WorkflowType ==
    {"simple_response", "prompt_chaining", "routing", "parallelization",
     "orchestrator_workers", "evaluator_optimizer"}

\* request.workflow_hint: None or a WorkflowType
Hints == {"None"} \cup WorkflowType

\* a message is told apart by the keyword groups of categorize_user_intent it contains
Messages == SUBSET {"personal", "analysis", "market", "current"}

categorize_user_intent(message) ==
    IF "personal" \in message THEN "simple_response"
    ELSE IF "analysis" \in message THEN "orchestrator_workers"
    ELSE IF "market" \in message THEN "parallelization"
    ELSE IF "current" \in message THEN "prompt_chaining"
    ELSE "simple_response"

\* lines 1391-1401: the workflow function that runs for a workflow type
WorkflowFunction(workflow_type) ==
    IF workflow_type \in {"simple_response", "parallelization",
                          "orchestrator_workers", "prompt_chaining"}
    THEN workflow_type
    ELSE "simple_response"

\* ConversationContext.add_turn
add_turn(context, turn_type) ==
    LET appended == Append(context.turns, turn_type)
        keep == MAX_CONTEXT_HISTORY * 2
    IN [context EXCEPT !.turns =
            IF Len(appended) > keep
            THEN SubSeq(appended, Len(appended) - keep + 1, Len(appended))
            ELSE appended]

\* workflow.final_result
NoResult == "None"
ErrorResult(function) ==
    CASE function = "simple_response" -> "Error in simple response workflow"
      [] function = "parallelization" -> "Error in parallelization workflow"
      [] function = "orchestrator_workers" -> "Error in orchestrator-workers workflow"
      [] function = "prompt_chaining" -> "Error in prompt chaining workflow"
      [] OTHER -> "Error"
TextResult == "text"
EmptyText == ""
NoResponseGenerated == "No response generated"
CouldNotDecompose == "Could not decompose task for parallel execution"

IsErrorResult(final_result) == final_result \in {ErrorResult(f) : f \in WorkflowType}

IdleReq ==
    [pc |-> "idle", session_id |-> "", workflow_type |-> "None", function |-> "None",
     workflow_id |-> 0, context |-> NewContext(0), current_round |-> 0,
     tool_executions |-> <<>>, final_result |-> NoResult,
     \* history fields: batches dispatched, LLM turns, synthesis/analysis turns,
     \* a send_message call raised, the except clause of the workflow ran
     dispatches |-> 0, llm_turns |-> 0, synthesis_turns |-> 0,
     llm_failed |-> FALSE, caught |-> FALSE,
     \* history fields: answers of the LLM that asked for tools, the calls of the
     \* last batch, the executions whose results went to the LLM after it, the
     \* batches that timed out, the completed calls of those batches, and the
     \* tool calls of this request that failed
     call_answers |-> 0, asked |-> <<>>, feedback |-> <<>>,
     timed_out_groups |-> {}, dropped |-> 0, failed_calls |-> 0]

\* no request has been answered yet
NoReply == [op |-> "none", status |-> 0]

\* a write through the context object the request holds reaches the store only
\* while the store still holds that object
StoreContext(session_id, context) ==
    IF session_id \in DOMAIN conversation_contexts
       /\ conversation_contexts[session_id].oid = context.oid
    THEN [conversation_contexts EXCEPT ![session_id] = context]
    ELSE conversation_contexts

\* batches of tool calls the LLM asks for inside a chat
ChatBatches == {<<"fetch_net_worth">>, <<"no_such_tool", "web_search">>}

\* an answer of the LLM to send_message: function calls, text parts, an empty
\* text, no parts at all, or an exception raised by the call
LlmAnswers ==
    [kind : {"calls"}, calls : ChatBatches]
    \cup [kind : {"text", "empty_text", "no_parts", "raise"}, calls : {<<>>}]

\* response.text: the text, or the ValueError the accessor raises when the
\* response has no text part
ResponseText(answer) ==
    CASE answer.kind = "text" -> TextResult
      [] answer.kind = "empty_text" -> EmptyText
      [] OTHER -> "ValueError"

\* the except clause of a workflow function
Fail(r) ==
    [r EXCEPT !.pc = "post", !.final_result = ErrorResult(r.function),
              !.caught = TRUE, !.context.agent_state = "error"]

\* the normal return of a workflow function
Done(r, final_result) ==
    [r EXCEPT !.pc = "post", !.final_result = final_result,
              !.context.agent_state = "ready"]

\* workflow.final_result = final_response.text
Finalize(r, answer) ==
    IF ResponseText(answer) = "ValueError" THEN Fail(r)
    ELSE Done(r, ResponseText(answer))

\* line 1004: response.text if hasattr(response, 'text') and response.text else ...
SimpleFinal(r, answer) ==
    CASE ResponseText(answer) = "ValueError" -> Fail(r)
      [] ResponseText(answer) = EmptyText -> Done(r, NoResponseGenerated)
      [] OTHER -> Done(r, ResponseText(answer))

\* context.agent_state = EXECUTING_TOOLS; await execute_tools_parallel(...)
Dispatch(r) ==
    [r EXCEPT !.pc = "await", !.dispatches = r.dispatches + 1,
              !.context.agent_state = "executing_tools"]

\* on to the last prompt of the workflow (synthesis / analysis)
ToFinal(r) == [r EXCEPT !.pc = "llm_final", !.context.agent_state = "evaluating"]

\* OrchestratorLoop without the bound on the rounds
OrchestratorLoopUnbounded(r, answer) ==
    LET r1 == [r EXCEPT !.current_round = r.current_round + 1] IN
    IF answer.kind = "calls" THEN Dispatch(r1) ELSE ToFinal(r1)

\* lines 1179-1223: the head of the orchestrator's loop with planning_response = answer
OrchestratorLoop(r, answer) ==
    IF r.current_round < max_rounds
    THEN LET r1 == [r EXCEPT !.current_round = r.current_round + 1] IN
         IF answer.kind = "calls" THEN Dispatch(r1) ELSE ToFinal(r1)
    ELSE ToFinal(r)

\* what a workflow does with the answer to its first prompt
AfterFirst(r, answer) ==
    CASE answer.kind = "raise" -> Fail([r EXCEPT !.llm_failed = TRUE])
      [] answer.kind # "raise" /\ r.function = "simple_response" ->
            IF answer.kind = "calls" THEN Dispatch(r) ELSE SimpleFinal(r, answer)
      [] answer.kind # "raise" /\ r.function = "parallelization" ->
            IF answer.kind = "calls" THEN Dispatch(r)
            ELSE IF answer.kind = "no_parts" THEN Done(r, CouldNotDecompose)
            ELSE Finalize(r, answer)
      [] answer.kind # "raise" /\ r.function = "orchestrator_workers" ->
            OrchestratorLoop(r, answer)
      [] answer.kind # "raise" /\ r.function = "prompt_chaining" ->
            IF answer.kind = "calls" THEN Dispatch(r) ELSE ToFinal(r)

\* AfterFeedback with a simple-response workflow that dispatches the tool calls
\* of every answer
AfterFeedbackRedispatch(r, answer) ==
    CASE answer.kind = "raise" -> Fail([r EXCEPT !.llm_failed = TRUE])
      [] answer.kind # "raise" /\ r.function = "simple_response" ->
            IF answer.kind = "calls" THEN Dispatch(r) ELSE SimpleFinal(r, answer)
      [] answer.kind # "raise" /\ r.function = "orchestrator_workers" ->
            OrchestratorLoop(r, answer)
      [] answer.kind # "raise" /\ r.function = "prompt_chaining" -> ToFinal(r)

\* what a workflow does with the answer to the tool responses it sent
AfterFeedback(r, answer) ==
    CASE answer.kind = "raise" -> Fail([r EXCEPT !.llm_failed = TRUE])
      [] answer.kind # "raise" /\ r.function = "simple_response" -> SimpleFinal(r, answer)
      [] answer.kind # "raise" /\ r.function = "orchestrator_workers" ->
            OrchestratorLoop(r, answer)
      [] answer.kind # "raise" /\ r.function = "prompt_chaining" -> ToFinal(r)

\* lines 1415-1425: the ChatResponse fields computed from workflow.tool_executions
ToolExecutionResponse(execution) ==
    [tool_name |-> execution.tool_name, category |-> execution.category,
     success |-> is_successful(execution)]

CountSuccessful(executions) ==
    Cardinality({i \in 1..Len(executions) : is_successful(executions[i])})

\* lines 1440-1441
ContextUpdated(executions) ==
    \E i \in 1..Len(executions) :
        executions[i].tool_name \in FI_TOOL_DEFINITIONS /\ is_successful(executions[i])

\* lines 1445-1448 applied to one mapping: every successful financial execution is
\* stored under its tool name, a later one overwriting an earlier one
StoreFinancial(mapping, executions) ==
    LET hits(t) == {i \in 1..Len(executions) :
                       executions[i].tool_name = t /\ is_successful(executions[i])}
        stored == {t \in FI_TOOL_DEFINITIONS : hits(t) # {}}
        last(t) == CHOOSE i \in hits(t) : \A j \in hits(t) : j <= i
    IN [t \in DOMAIN mapping \cup stored |->
            IF t \in stored THEN executions[last(t)].result ELSE mapping[t]]

\* RemoveWorkflow that leaves the workflow registered
RemoveWorkflowKeeps(workflow_id) == active_workflows

\* lines 1451-1452: del active_workflows[workflow.workflow_id]
RemoveWorkflow(workflow_id) ==
    [w \in DOMAIN active_workflows \ {workflow_id} |-> active_workflows[w]]

\* POST /session/{session_id}/chat up to the first prompt of the workflow
ChatStart(session_id, hint, message) ==
    /\ req.pc = "idle"
    /\ chats < MaxChats
    /\ session_id \in DOMAIN sessions
    /\ LET workflow_type == IF hint # "None" THEN hint
                            ELSE categorize_user_intent(message)
           function == WorkflowFunction(workflow_type)
           context == [add_turn(conversation_contexts[session_id], "user")
                          EXCEPT !.agent_state =
                              IF function = "simple_response" THEN "responding"
                              ELSE "thinking"]
       IN /\ req' = [IdleReq EXCEPT !.pc = "llm_first", !.session_id = session_id,
                                    !.workflow_type = workflow_type,
                                    !.function = function,
                                    !.workflow_id = chats + 1,
                                    !.context = context]
          /\ conversation_contexts' = StoreContext(session_id, context)
          /\ active_workflows' =
                [w \in DOMAIN active_workflows \cup {chats + 1} |->
                    IF w = chats + 1 THEN session_id ELSE active_workflows[w]]
    /\ chats' = chats + 1
    /\ reply' = NoReply
    /\ UNCHANGED <<sessions, inits, poolVars, legacy, call>>

\* send_message returned (or raised) answer
Answered(r, answer) ==
    [r EXCEPT !.llm_turns = r.llm_turns + 1,
              !.call_answers = IF answer.kind = "calls" THEN @ + 1 ELSE @]

\* the request moves on to r; a dispatch submits the batch the LLM asked for
Continue(r, answer) ==
    /\ req' = IF r.pc = "await" THEN [r EXCEPT !.asked = answer.calls] ELSE r
    /\ conversation_contexts' = StoreContext(r.session_id, r.context)
    /\ IF r.pc = "await"
       THEN SubmitBatch(answer.calls, r.session_id)
       ELSE UNCHANGED poolVars
    /\ UNCHANGED <<sessions, active_workflows, inits, reply, chats, legacy, call>>

\* the answer to the first prompt (user input, decomposition, planning, information)
LlmFirst(answer) ==
    /\ req.pc = "llm_first"
    /\ answer \in LlmAnswers
    /\ Continue(AfterFirst(Answered(req, answer), answer), answer)

\* the answer to chat.send_message(tool_responses)
LlmFeedback(answer) ==
    /\ req.pc = "llm_feedback"
    /\ answer \in LlmAnswers
    /\ Continue(AfterFeedback(Answered(req, answer), answer), answer)

\* the answer to the synthesis / analysis prompt
LlmFinal(answer) ==
    /\ req.pc = "llm_final"
    /\ answer \in LlmAnswers
    /\ LET r == Answered(req, answer) IN
       Continue(IF answer.kind = "raise" THEN Fail([r EXCEPT !.llm_failed = TRUE])
                ELSE Finalize([r EXCEPT !.synthesis_turns = r.synthesis_turns + 1], answer),
                answer)

\* a tool call that failed: its handler raised, or returned an error envelope
FailedCall(execution) ==
    execution.error # NoError \/ HasErrorKey(execution.result)

\* the executions whose results the workflow hands to the LLM after a batch: the
\* tool responses, one per execution; in the parallelization workflow the
\* synthesis data, one entry per successful execution
FedBack(function, executions) ==
    IF function = "parallelization" THEN SelectSeq(executions, is_successful)
    ELSE executions

\* the workflow resumes with the list execute_tools_parallel returned
Resume(executions, timed_out) ==
    LET finished == {id \in BatchTasks : tasks[id].pc = "done"}
        failed == IF timed_out THEN Len(batch.calls)
                  ELSE Cardinality({i \in 1..Len(executions) : FailedCall(executions[i])})
        r == [req EXCEPT !.tool_executions = req.tool_executions \o executions,
                         !.feedback = FedBack(req.function, executions),
                         !.timed_out_groups = IF timed_out THEN @ \cup {batch.bno} ELSE @,
                         !.dropped = IF timed_out THEN @ + Cardinality(finished) ELSE @,
                         !.failed_calls = @ + failed]
    IN
    /\ req' = IF r.function = "parallelization" THEN ToFinal(r)
              ELSE [r EXCEPT !.pc = "llm_feedback"]
    /\ conversation_contexts' = StoreContext(req.session_id, req'.context)
    /\ batch' = [IdleBatch EXCEPT !.bno = batch.bno]
    /\ UNCHANGED <<sessions, active_workflows, inits, reply, chats, legacy, call>>

ChatGather ==
    /\ req.pc = "await"
    /\ CanGather
    /\ Resume(Gathered, FALSE)
    /\ tasks' = [id \in TaskIds \ BatchTasks |-> tasks[id]]

ChatTimeout ==
    /\ req.pc = "await"
    /\ CanTimeout
    /\ Cardinality(TaskIds \ BatchTasks) <= MaxStale
    /\ Resume(TimeoutResult, TRUE)
    /\ tasks' = StillRunning

\* lines 1403-1464: orchestrate_agent_workflow after the workflow returned
ChatFinish ==
    /\ req.pc = "post"
    /\ LET executions == req.tool_executions
           session_data == sessions[req.session_id]
           context == [add_turn(req.context, "assistant") EXCEPT
                          !.n_tool_executions = @ + Len(executions),
                          !.current_workflow = req.workflow_type,
                          !.financial_context = StoreFinancial(@, executions)]
       IN /\ conversation_contexts' = StoreContext(req.session_id, context)
          /\ sessions' = [sessions EXCEPT ![req.session_id] =
                [session_data EXCEPT
                    !.total_tool_calls = @ + Len(executions),
                    !.successful_tool_calls = @ + CountSuccessful(executions),
                    !.financial_data = StoreFinancial(@, executions)]]
          /\ reply' = [op |-> "chat", status |-> 200,
                       response |-> req.final_result,
                       workflow_used |-> req.workflow_type,
                       agent_state |-> context.agent_state,
                       tools_used |-> [i \in 1..Len(executions) |->
                                          ToolExecutionResponse(executions[i])],
                       total_tools |-> Len(executions),
                       successful_tools |-> CountSuccessful(executions),
                       failed_tools |-> Len(executions) - CountSuccessful(executions),
                       failed_calls |-> req.failed_calls,
                       context_updated |-> ContextUpdated(executions),
                       conversation_turn |-> Len(context.turns) \div 2,
                       workflow_id |-> req.workflow_id]
    /\ active_workflows' = RemoveWorkflow(req.workflow_id)
    /\ req' = IdleReq
    /\ UNCHANGED <<inits, poolVars, chats, legacy, call>>

\* check_session_authentication(session_id) of api_server_new.py: the verdict and
\* the session dict after the call.  recent: fewer than 10 * AUTH_CACHE_DURATION
\* seconds have passed since last_auth_check (1 once a check has stored its time).
\* The remote service is not asked: the probe is commented out.
check_session_authentication(session_data, recent) ==
    IF recent /\ session_data.authenticated
    THEN [ok |-> TRUE, session |-> session_data]
    ELSE [ok |-> TRUE,
          session |-> [session_data EXCEPT !.authenticated = TRUE,
                                           !.last_auth_check = 1]]

\* the endpoints of api_server_new.py that take a session id
NewEndpoints ==
    {"chat", "status", "fi-mcp-status", "auth-url", "conversation-context",
     "dashboard", "bank-transactions"}

\* the text of the SessionNotFound error
SESSION_NOT_FOUND_ERROR == "Session not found"

\* SessionAbsent that holds for every session id
SessionAbsentAlways(session_id, endpoint) == TRUE

\* the test that opens every endpoint: "if session_id not in sessions";
\* conversation-context looks the id up in conversation_contexts
SessionAbsent(session_id, endpoint) ==
    IF endpoint = "conversation-context"
    THEN session_id \notin DOMAIN conversation_contexts
    ELSE session_id \notin DOMAIN sessions

\* a request to endpoint for a session id that is not in the store:
\* raise HTTPException(status_code=404, ...)
SessionNotFound(session_id, endpoint) ==
    /\ endpoint \in NewEndpoints
    /\ SessionAbsent(session_id, endpoint)
    /\ reply' = [op |-> "not_found", status |-> 404, endpoint |-> endpoint,
                 session_id |-> session_id,
                 detail |-> IF endpoint = "conversation-context"
                            THEN "Conversation context not found"
                            ELSE SESSION_NOT_FOUND_ERROR]
    /\ UNCHANGED <<sessions, conversation_contexts, active_workflows, inits,
                   poolVars, req, chats, legacy, call>>

\* GET /session/{session_id}/status
SessionStatus(session_id, recent) ==
    /\ session_id \in DOMAIN sessions
    /\ recent => sessions[session_id].last_auth_check # 0
    /\ LET checked == check_session_authentication(sessions[session_id], recent) IN
       /\ sessions' = [sessions EXCEPT ![session_id] = checked.session]
       /\ reply' = [op |-> "status", status |-> 200, authenticated |-> checked.ok]
    /\ UNCHANGED <<conversation_contexts, active_workflows, inits, poolVars,
                   req, chats, legacy, call>>

----------------------------------------------------------------------------
(* api_server.py: one session with its cache of financial data, the chat   *)
(* request with the persistent chat instance, the prefetch operation       *)

\* [t["name"] for t in FI_TOOL_DEFINITIONS] of api_server.py
LEGACY_FI_TOOL_DEFINITIONS ==
    {"fetch_net_worth", "fetch_credit_report", "fetch_epf_details", "fetch_mf_transactions"}

\* the chat loop's max_rounds
legacy_max_rounds == 3
\* the clock advances in steps of 600 s: the cached authentication status is used
\* less than 300 s after the last check (within the same step), the context is
\* refreshed more than 600 s after the last refresh (more than one step later)
AuthCacheTicks == 1
ContextRefreshTicks == 1
\* last value of the clock
MaxTime == 2
\* most chat requests that reach the LLM in one behaviour of api_server.py
MaxLegacyChats == 3

\* format_financial_data_for_context(data), told apart by the text it is made from
format_financial_data_for_context(data) ==
    IF data.hasContent /\ data.contentIsList /\ Len(data.content) > 0
       /\ data.content[1].isDict /\ data.content[1].hasText
    THEN data.content[1].text
    ELSE "str(data)"

\* create_user_financial_context(financial_data): the "not loaded" sentence for an
\* empty mapping, else one part per known tool whose entry is neither a
\* login-required payload nor an error envelope
create_user_financial_context(financial_data) ==
    [loaded |-> DOMAIN financial_data # {},
     parts |-> [t \in {k \in DOMAIN financial_data \cap LEGACY_FI_TOOL_DEFINITIONS :
                          ~is_login_required(financial_data[k])
                          /\ ~HasErrorKey(financial_data[k])} |->
                   format_financial_data_for_context(financial_data[t])]]

\* the last step was no tool round
NoRound == [function_calls |-> <<>>, executed |-> <<>>, tool_responses |-> <<>>]

\* the state of api_server.py at clock value now with no session stored
NoLegacySession(now) ==
    [exists |-> FALSE, now |-> now, authenticated |-> FALSE, last_auth_check |-> 0,
     financial_data |-> EmptyMap, last_updated |-> 0,
     has_chat |-> FALSE, chat_context |-> create_user_financial_context(EmptyMap),
     last_context_update |-> 0,
     \* the chat request in progress
     pc |-> "idle", function_calls |-> <<>>, tools_used |-> <<>>, current_round |-> 0,
     \* the HTTP status of the chat request that ended in the last step (0: none did)
     status |-> 0,
     \* history fields: user turns so far, whether at the last user turn the
     \* context the chat instance carried was the one the data rendered to, and
     \* what the authentication check of the last step did ("none": it had none)
     turns |-> 0, turn_fresh |-> TRUE, last_check |-> "none",
     \* the error text of the response of the last step, and whether the
     \* session was deleted, and its requests.Session closed, just before
     error |-> "None", released |-> FALSE,
     \* session_data["chat_history"]: one entry per answered chat request
     chat_history |-> <<>>,
     \* the tool round of the last step: the function calls of the LLM's answer,
     \* the tools that ran for it (from the cache or by a call) and the
     \* tool_responses sent back
     round |-> NoRound]

\* execute_mcp_tool of api_server.py on one answer of the remote service
LegacyMcpClassify(resp, skip_auth_retry) ==
    CASE resp.kind = "401" ->
            IF skip_auth_retry THEN ErrorEnvelope("Authentication required") ELSE LoginTop
      [] resp.kind \in {"400_invalid_session", "400_other", "500"} -> ErrorEnvelope("HTTPError")
      [] resp.kind = "200_result" ->
            IF is_login_required(resp.result) THEN LoginTop ELSE resp.result
      [] resp.kind = "200_error" -> ErrorEnvelope("rpc error")
      [] resp.kind = "200_neither" ->
            ErrorEnvelope("No valid response received from MCP server")
      [] resp.kind = "200_bad_json" -> ErrorEnvelope("Invalid JSON response from server")
      [] resp.kind \in {"timeout", "connection_error"} -> ErrorEnvelope("RequestException")

\* the exception that escapes execute_mcp_tool of api_server.py on one answer
\* ("None": it returns): its except clauses name RequestException and
\* json.JSONDecodeError only, so the TypeError of '"result" in None' (the body is
\* the JSON value null) and the TypeError that escapes is_login_required do escape
LegacyMcpRaises(resp) ==
    CASE resp.kind = "200_null" -> "TypeError"
      [] resp.kind = "200_result" /\ IsLoginRequiredOutcome(resp.result) = "TypeError"
            -> "TypeError"
      [] OTHER -> "None"

\* payloads in the "result" of an answer: every shape is_login_required tells apart
GatewayResults ==
    {NoneValue}
    \cup {DictPayload(st, FALSE, FALSE, <<>>) : st \in {"absent", "login_required"}}
    \cup {DictPayload(st, TRUE, FALSE, <<>>) : st \in {"absent", "login_required"}}
    \cup {DictPayload(st, TRUE, TRUE, <<>>) : st \in {"absent", "login_required"}}
    \cup {DictPayload(st, TRUE, TRUE, <<item>>) :
             st \in {"absent", "login_required"}, item \in Items}

\* answers to the tools/call request of one execute_mcp_tool call, a body that is
\* the JSON value null among them
GatewayResponses ==
    [kind : {"200_result"}, result : GatewayResults]
    \cup [kind : {"200_error", "200_neither", "200_bad_json", "200_null", "401",
                  "400_invalid_session", "400_other", "500", "timeout",
                  "connection_error"},
          result : {NoneValue}]

\* no execute_mcp_tool call is under way
NoCall == [pc |-> "none", resp |-> [kind |-> "none", result |-> NoneValue],
           skip_auth_retry |-> FALSE, raised |-> "None", value |-> NoneValue]

\* execute_mcp_tool(session_id, tool_name, skip_auth_retry) is called; the remote
\* service will answer with resp
PendingCalls ==
    [pc : {"called"}, resp : GatewayResponses, skip_auth_retry : BOOLEAN,
     raised : {"None"}, value : {NoneValue}]

\* the call runs to its end: it returns a value or an exception escapes it
LegacyExecuteMcpTool ==
    /\ call.pc = "called"
    /\ call' =
          IF ~legacy.exists
          THEN [call EXCEPT !.pc = "returned", !.value = ErrorEnvelope("Session not found")]
          ELSE IF LegacyMcpRaises(call.resp) # "None"
          THEN [call EXCEPT !.pc = "raised", !.raised = LegacyMcpRaises(call.resp)]
          ELSE [call EXCEPT !.pc = "returned",
                            !.value = LegacyMcpClassify(call.resp, call.skip_auth_retry)]
    /\ UNCHANGED <<storeVars, poolVars, req, reply, chats, legacy>>

\* answers of the remote service in the model of api_server.py
LegacyResponses ==
    {r \in McpResponses :
        \/ r.kind = "401"
        \/ r.kind = "200_result" /\ r.result \in {Data1, Data2, LoginNested}}

\* answers to the fetch_net_worth call of an authentication check
LegacyAuthResponses ==
    {r \in LegacyResponses : r.kind = "401" \/ r.result = Data1}

\* check_session_authentication(session_id, force_check=False): the verdict and
\* the session record after the call
legacy_check_session_authentication(L, resp) ==
    IF (L.now - L.last_auth_check < AuthCacheTicks) /\ L.authenticated
    THEN [ok |-> TRUE, session |-> [L EXCEPT !.last_check = "cached"]]
    ELSE LET test_result == LegacyMcpClassify(resp, TRUE)
             is_authenticated == ~is_login_required(test_result) /\ ~HasErrorKey(test_result)
         IN [ok |-> is_authenticated,
             session |-> [L EXCEPT !.authenticated = is_authenticated,
                                   !.last_auth_check = L.now,
                                   !.last_check =
                                       IF L.now - L.last_auth_check < AuthCacheTicks
                                       THEN "probe_in_window"
                                       ELSE "probe_after_window"]]

\* function calls in one answer of the LLM to the chat loop
LegacyCalls == {<<"fetch_net_worth">>, <<"fetch_net_worth", "web_search">>}

LegacyAnswers ==
    [kind : {"calls"}, calls : LegacyCalls]
    \cup [kind : {"text", "empty_text", "raise"}, calls : {<<>>}]

\* the response of the last step has been delivered
Delivered(L) ==
    [L EXCEPT !.status = 0, !.last_check = "none", !.error = "None", !.released = FALSE,
              !.round = NoRound]

\* lines 1104-1105: except Exception: raise HTTPException(status_code=500, ...)
LegacyFail(L) == [L EXCEPT !.pc = "idle", !.status = 500]

\* lines 1066-1102: the text is extracted (an exception ends the request with
\* HTTP 500), and a financial tool among tools_used sets last_updated and
\* invalidates the chat instance
LegacyFinish(L, answer) ==
    IF ResponseText(answer) = "ValueError"
    THEN LegacyFail(L)
    ELSE LET stored == [L EXCEPT !.pc = "idle", !.status = 200,
                                 !.chat_history = Append(@, "exchange")]
         IN IF \E i \in 1..Len(L.tools_used) :
                    L.tools_used[i] \in LEGACY_FI_TOOL_DEFINITIONS
            THEN [stored EXCEPT !.last_updated = L.now, !.has_chat = FALSE,
                                !.last_context_update = 0]
            ELSE stored

\* lines 782-797: the head of the chat loop with response = answer
LegacyLoop(L, answer) ==
    IF L.current_round < legacy_max_rounds /\ answer.kind = "calls"
    THEN [L EXCEPT !.pc = "tools", !.current_round = L.current_round + 1,
                   !.function_calls = answer.calls,
                   !.tools_used = L.tools_used \o answer.calls]
    ELSE LegacyFinish(L, answer)

\* lines 671-767: the chat instance of the request: a new one carries the context
\* rendered now; an existing one gets a context update only after the refresh
\* window or when last_updated is later than the last context update
LegacyChatInstance(L) ==
    IF ~L.has_chat
    THEN [L EXCEPT !.has_chat = TRUE,
                   !.chat_context = create_user_financial_context(L.financial_data)]
    ELSE IF (L.now - L.last_context_update > ContextRefreshTicks)
            \/ (L.last_updated > L.last_context_update)
    THEN [L EXCEPT !.chat_context = create_user_financial_context(L.financial_data),
                   !.last_context_update = L.now]
    ELSE L

\* POST /session/{session_id}/chat up to the answer to the user's message, in a
\* behaviour with at most limit chat requests that reach the LLM
LegacyChatBeginUpTo(limit, auth, answer) ==
    /\ legacy.exists
    /\ legacy.pc = "idle"
    /\ legacy.turns < limit
    /\ auth \in LegacyAuthResponses
    /\ answer \in LegacyAnswers
    /\ LET checked == legacy_check_session_authentication(Delivered(legacy), auth) IN
       IF ~checked.ok
       THEN legacy' = [checked.session EXCEPT !.status = 401]
       ELSE LET chat == LegacyChatInstance(checked.session)
                turn == [chat EXCEPT
                            !.status = 0,
                            !.turns = chat.turns + 1,
                            !.turn_fresh =
                                chat.chat_context =
                                    create_user_financial_context(chat.financial_data),
                            !.tools_used = <<>>, !.function_calls = <<>>,
                            !.current_round = 0]
            IN legacy' = IF answer.kind = "raise" THEN LegacyFail(turn)
                         ELSE LegacyLoop(turn, answer)
    /\ UNCHANGED newVars

LegacyChatBegin(auth, answer) == LegacyChatBeginUpTo(MaxLegacyChats, auth, answer)

\* lines 805-1064: the tool of the round (the last function call of the answer) is
\* executed, a financial tool from the cache when it has an entry; the tool
\* responses are sent and the loop goes on with the answer
LegacyToolRound(resp, answer) ==
    /\ legacy.pc = "tools"
    /\ resp \in LegacyResponses
    /\ answer \in LegacyAnswers
    /\ LET tool_name == legacy.function_calls[Len(legacy.function_calls)]
           tool_result == LegacyMcpClassify(resp, FALSE)
           done == [Delivered(legacy) EXCEPT
                       !.round = [function_calls |-> legacy.function_calls,
                                  executed |-> <<tool_name>>,
                                  tool_responses |-> <<tool_name>>]]
           L == IF tool_name \in LocalTools \/ tool_name \in DOMAIN legacy.financial_data
                THEN done
                ELSE [done EXCEPT
                        !.financial_data =
                            IF ~HasErrorKey(tool_result) /\ ~is_login_required(tool_result)
                            THEN [t \in DOMAIN legacy.financial_data \cup {tool_name} |->
                                     IF t = tool_name THEN tool_result
                                     ELSE legacy.financial_data[t]]
                            ELSE legacy.financial_data]
       IN legacy' = IF answer.kind = "raise"
                    THEN LegacyFail(L)
                    ELSE LegacyLoop(L, answer)
    /\ UNCHANGED newVars

\* what the remote service answers to the four calls of one prefetch
PrefetchPatterns ==
    {[t \in LEGACY_FI_TOOL_DEFINITIONS |-> r] :
        r \in {x \in LegacyResponses : x.kind = "401" \/ x.result = Data1}}
    \cup {[t \in LEGACY_FI_TOOL_DEFINITIONS |->
             IF t = "fetch_net_worth" THEN [kind |-> "401", result |-> NoneValue]
             ELSE [kind |-> "200_result", result |-> Data2]]}

\* POST /session/{session_id}/prefetch: prefetch_all_user_data stores every
\* result that is neither login-required nor an error
LegacyPrefetch(auth, pattern) ==
    /\ legacy.exists
    /\ auth \in LegacyAuthResponses
    /\ pattern \in PrefetchPatterns
    /\ LET checked == legacy_check_session_authentication(Delivered(legacy), auth)
           L == checked.session
           result(t) == LegacyMcpClassify(pattern[t], TRUE)
           loaded == {t \in LEGACY_FI_TOOL_DEFINITIONS :
                         ~is_login_required(result(t)) /\ ~HasErrorKey(result(t))}
       IN legacy' = IF ~checked.ok THEN L
                    ELSE [L EXCEPT !.financial_data =
                            [t \in DOMAIN L.financial_data \cup loaded |->
                                IF t \in loaded THEN result(t) ELSE L.financial_data[t]]]
    /\ UNCHANGED newVars

\* POST /session/create of api_server.py
LegacyCreate(resp) ==
    /\ ~legacy.exists
    /\ resp \in InitResponses
    /\ legacy' = IF InitSucceeds(resp)
                 THEN [NoLegacySession(legacy.now) EXCEPT !.exists = TRUE,
                                                         !.last_updated = legacy.now,
                                                         !.turns = legacy.turns]
                 ELSE Delivered(legacy)
    /\ UNCHANGED newVars

\* DELETE /session/{session_id}
LegacyDelete ==
    /\ legacy.exists
    /\ legacy.pc = "idle"
    /\ legacy' = [NoLegacySession(legacy.now) EXCEPT !.turns = legacy.turns,
                                                    !.status = 200,
                                                    !.released = TRUE]
    /\ UNCHANGED newVars

\* the endpoints of api_server.py that take a session id: those under
\* /session/{session_id}, which raise HTTPException(404), and those of the
\* frontend, which return a body with success False and the error text
LegacyPathEndpoints ==
    {"status", "auth-url", "quick-auth-check", "prefetch", "chat", "delete"}
LegacyFrontendEndpoints ==
    {"fetch_net_worth", "fetch_epf_details", "fetch_mf_transactions",
     "fetch_bank_transactions", "fetch_credit_report", "chat_frontend",
     "financial-context", "refresh-context", "chat-history",
     "clear-chat-history", "ask-fi"}

\* a request to endpoint of api_server.py for a session id that is not in sessions
LegacyNotFound(endpoint) ==
    /\ ~legacy.exists
    /\ endpoint \in LegacyPathEndpoints \cup LegacyFrontendEndpoints
    /\ legacy' = [Delivered(legacy) EXCEPT
                     !.status = IF endpoint \in LegacyPathEndpoints THEN 404 ELSE 200,
                     !.error = SESSION_NOT_FOUND_ERROR,
                     !.released = legacy.released]
    /\ UNCHANGED newVars

\* 300 s pass
LegacyTick ==
    /\ legacy.now < MaxTime
    /\ legacy' = [Delivered(legacy) EXCEPT !.now = legacy.now + 1]
    /\ UNCHANGED newVars

----------------------------------------------------------------------------
(* SpecDispatch: execute_tools_parallel called on a created session, with  *)
(* every batch the LLM can ask for and every answer of the remote service  *)

\* a workflow calls execute_tools_parallel(tool_calls, session_id, workflow_id)
DispatchCall(calls, session_id) ==
    /\ batch.state = "idle"
    /\ session_id \in DOMAIN sessions
    /\ calls \in ToolBatches
    /\ SubmitBatch(calls, session_id)
    /\ UNCHANGED <<storeVars, chatVars, legacy>>

DispatchGather == GatherBatch /\ UNCHANGED <<storeVars, chatVars, legacy>>

DispatchTimeout == TimeoutBatch /\ UNCHANGED <<storeVars, chatVars, legacy>>

InitStore ==
    /\ sessions = EmptyMap
    /\ conversation_contexts = EmptyMap
    /\ active_workflows = EmptyMap
    /\ inits = 0

InitPool ==
    /\ tasks = EmptyMap
    /\ batch = IdleBatch

InitChat ==
    /\ req = IdleReq
    /\ reply = NoReply
    /\ chats = 0
    /\ legacy = NoLegacySession(1)
    /\ call = NoCall

InitDispatch == InitStore /\ InitPool /\ InitChat

NextDispatch ==
    \/ \E s \in SessionIds, r \in InitResponses : CreateSession(s, r)
    \/ \E s \in SessionIds, calls \in ToolBatches : DispatchCall(calls, s)
    \/ \E id \in TaskIds, o \in HandlerOutcomes : RunLocalTool(id, o)
    \/ \E id \in TaskIds : RunUnknownTool(id)
    \/ \E id \in TaskIds, r \in McpResponses : McpPost(id, r)
    \/ \E id \in TaskIds, r \in InitResponses : McpReinit(id, r)
    \/ DispatchGather
    \/ DispatchTimeout

SpecDispatch == InitDispatch /\ [][NextDispatch]_vars

----------------------------------------------------------------------------
(* SpecChat: chat requests, one at a time, on a created session; every     *)
(* workflow, every answer of the LLM, the tool threads and the remote      *)
(* service interleaved with the request                                    *)

\* answers of the remote service to tools/call inside a chat
ChatMcpResponses ==
    {r \in McpResponses :
        \/ r.kind \in {"401", "400_invalid_session", "timeout"}
        \/ r.kind = "200_result" /\ r.result \in {Data1, LoginNested}}

InitChatSpec == InitStore /\ InitPool /\ InitChat

\* the first chat request of the session
FirstChat(session_id, hint, message) ==
    /\ chats = 0
    /\ ChatStart(session_id, hint, message)

NextChat ==
    \/ \E s \in SessionIds, r \in InitResponses : CreateSession(s, r)
    \/ \E s \in SessionIds, h \in Hints, m \in Messages : FirstChat(s, h, m)
    \/ \E a \in LlmAnswers : LlmFirst(a)
    \/ \E a \in LlmAnswers : LlmFeedback(a)
    \/ \E a \in LlmAnswers : LlmFinal(a)
    \/ ChatGather
    \/ ChatTimeout
    \/ ChatFinish
    \/ \E id \in TaskIds, o \in HandlerOutcomes : RunLocalTool(id, o)
    \/ \E id \in TaskIds : RunUnknownTool(id)
    \/ \E id \in TaskIds, r \in ChatMcpResponses : McpPost(id, r)
    \/ \E id \in TaskIds, r \in InitResponses : McpReinit(id, r)

SpecChat == InitChatSpec /\ [][NextChat]_vars

----------------------------------------------------------------------------
(* SpecSession: several chat requests in a row on one session, each a     *)
(* simple-response workflow that asks for a financial tool or answers      *)
(* with text; the remote service answers with data or reports the session  *)
(* as expired                                                              *)

\* messages that categorize_user_intent routes to the simple-response workflow
SessionMessages == {{}, {"personal"}}

SessionLlmAnswers ==
    {a \in LlmAnswers : a.kind = "text" \/ (a.kind = "calls" /\ a.calls = <<"fetch_net_worth">>)}

SessionMcpResponses ==
    {r \in McpResponses :
        \/ r.kind = "400_invalid_session"
        \/ r.kind = "200_result" /\ r.result \in {Data1, Data2}}

NextSession ==
    \/ \E s \in SessionIds : CreateSession(s, "ok")
    \/ \E s \in SessionIds, m \in SessionMessages : ChatStart(s, "None", m)
    \/ \E a \in SessionLlmAnswers : LlmFirst(a)
    \/ \E a \in SessionLlmAnswers : LlmFeedback(a)
    \/ ChatGather
    \/ ChatFinish
    \/ \E id \in TaskIds, r \in SessionMcpResponses : McpPost(id, r)
    \/ \E id \in TaskIds : McpReinit(id, "ok")

SpecSession == InitChatSpec /\ [][NextSession]_vars

----------------------------------------------------------------------------
(* SpecLegacy: api_server.py with one session: create, chat, prefetch,     *)
(* delete and the passing of time                                          *)

NextLegacy ==
    \/ \E r \in InitResponses : LegacyCreate(r)
    \/ \E auth \in LegacyAuthResponses, a \in LegacyAnswers : LegacyChatBegin(auth, a)
    \/ \E r \in LegacyResponses, a \in LegacyAnswers : LegacyToolRound(r, a)
    \/ \E auth \in LegacyAuthResponses, p \in PrefetchPatterns : LegacyPrefetch(auth, p)
    \/ LegacyDelete
    \/ LegacyTick

SpecLegacy == InitChatSpec /\ [][NextLegacy]_vars

----------------------------------------------------------------------------
(* SpecAuth: a session of api_server_new.py whose user has not logged in:   *)
(* the remote service answers every tools/call with a demand to log in;     *)
(* status requests and chat requests that ask for fetch_net_worth           *)

\* the remote service demands authentication, in each of its three ways
LoginMcpResponses ==
    {r \in McpResponses :
        \/ r.kind = "401"
        \/ r.kind = "200_result" /\ r.result \in {LoginTop, LoginNested}}

NextAuth ==
    \/ \E s \in SessionIds : CreateSession(s, "ok")
    \/ \E s \in SessionIds, recent \in BOOLEAN : SessionStatus(s, recent)
    \/ \E s \in SessionIds, m \in SessionMessages : ChatStart(s, "None", m)
    \/ \E a \in SessionLlmAnswers : LlmFirst(a)
    \/ \E a \in SessionLlmAnswers : LlmFeedback(a)
    \/ ChatGather
    \/ ChatFinish
    \/ \E id \in TaskIds, r \in LoginMcpResponses : McpPost(id, r)

SpecAuth == InitChatSpec /\ [][NextAuth]_vars

----------------------------------------------------------------------------
(* SpecGateway: execute_mcp_tool of api_server.py called once, before or    *)
(* after the session was created, with every answer of the remote service   *)

InitGateway ==
    /\ InitStore /\ InitPool
    /\ req = IdleReq /\ reply = NoReply /\ chats = 0
    /\ legacy = NoLegacySession(1)
    /\ call \in PendingCalls

NextGateway ==
    \/ \E r \in InitResponses : LegacyCreate(r)
    \/ LegacyExecuteMcpTool

SpecGateway == InitGateway /\ [][NextGateway]_vars

----------------------------------------------------------------------------
(* web_search.py and financial_tools.py: the local tools, each a function  *)
(* of its arguments and of what the services it asks answer                *)

\* the outcomes of one provider's request
ProviderOutcomes == {"items", "no_items", "request_error", "other_error"}

\* execute_web_search is called: whether the query is empty, the credentials in
\* the environment, what each provider answers, whether financial_search could
\* be imported, whether the query has a financial keyword, and what
\* enhanced_financial_search returns
SearchCalls ==
    [pc : {"called"}, tool : {"web_search"},
     input : [query_empty : BOOLEAN, google_keys : BOOLEAN, google : ProviderOutcomes,
              serp_key : BOOLEAN, serp : ProviderOutcomes,
              enhanced_available : BOOLEAN, financial : BOOLEAN,
              enhanced : {"long", "short", "raise"}],
     output : {NoneValue}]

\* _try_google_search(query): the text it returns, told apart by its kind
try_google_search(in) ==
    CASE ~in.google_keys -> "demo"
      [] in.google_keys /\ in.google = "items" -> "results"
      [] in.google_keys /\ in.google = "no_items" -> ""
      [] in.google_keys /\ in.google \in {"request_error", "other_error"} -> "unavailable"

\* _try_serp_search(query)
try_serp_search(in) ==
    CASE ~in.serp_key -> ""
      [] in.serp_key /\ in.serp = "items" -> "results"
      [] in.serp_key /\ in.serp = "no_items" -> ""
      [] in.serp_key /\ in.serp \in {"request_error", "other_error"} -> "unavailable"

\* execute_web_search(console, query): the strategy whose text is returned and
\* the kind of that text; an empty query gets an error envelope
execute_web_search(in) ==
    CASE in.query_empty -> [strategy |-> "none", text |-> "error"]
      [] ~in.query_empty /\ try_google_search(in) # "" ->
            [strategy |-> "google", text |-> try_google_search(in)]
      [] ~in.query_empty /\ try_google_search(in) = "" /\ try_serp_search(in) # "" ->
            [strategy |-> "serp", text |-> try_serp_search(in)]
      [] ~in.query_empty /\ try_google_search(in) = "" /\ try_serp_search(in) = "" ->
            IF in.enhanced_available /\ in.financial /\ in.enhanced = "long"
            THEN [strategy |-> "enhanced", text |-> "results"]
            ELSE [strategy |-> "static", text |-> "guidance"]

\* the tool function runs to its end
ExecuteWebSearch ==
    /\ call.pc = "called"
    /\ call.tool = "web_search"
    /\ call' = [call EXCEPT !.pc = "returned", !.output = execute_web_search(call.input)]
    /\ UNCHANGED <<storeVars, poolVars, req, reply, chats, legacy>>

\* longest NAV history and longest period, in days
MaxNavLen == 3
MaxPeriodDays == 3

\* execute_mutual_fund_analysis is called for one fund: the action, the
\* NAV history that api.mfapi.in returns (newest first) and period_days
NavCalls ==
    [pc : {"called"}, tool : {"mutual_fund_analysis"},
     input : [action : {"get_nav", "compare", "portfolio_analysis"},
              nav_data : UNION {[1..n -> {100, 110, 121}] : n \in 0..MaxNavLen},
              period_days : 0..MaxPeriodDays],
     output : {NoneValue}]

\* ((current_nav - old_nav) / old_nav) * 100 as the report prints it (two decimal
\* places): in hundredths of a percent, rounded to the nearest
PeriodReturn(current_nav, old_nav) ==
    LET n == (current_nav - old_nav) * 10000
        magnitude == ((IF n < 0 THEN -n ELSE n) * 2 + old_nav) \div (2 * old_nav)
    IN [kind |-> "return", value |-> IF n < 0 THEN -magnitude ELSE magnitude]

\* no return is reported for the fund: it has no NAV data, the history is too
\* short, or the except clause reported an error
NoReturn(kind) == [kind |-> kind, value |-> 0]

\* _get_nav_data on one fund: nav_data[:period_days], then first against last
get_nav_data(nav_data, period_days) ==
    IF Len(nav_data) = 0 THEN NoReturn("no_data")
    ELSE LET cut == IF period_days < Len(nav_data)
                    THEN SubSeq(nav_data, 1, period_days) ELSE nav_data
         IN IF Len(cut) = 0 THEN NoReturn("error")  \* IndexError of nav_data[0]
            ELSE PeriodReturn(cut[1], cut[Len(cut)])

\* _compare_mutual_funds on one fund: nav_data[0] against nav_data[period_days]
compare_mutual_funds(nav_data, period_days) ==
    IF Len(nav_data) > period_days
    THEN PeriodReturn(nav_data[1], nav_data[period_days + 1])
    ELSE NoReturn("no_data")

\* _analyze_mf_portfolio on one fund
analyze_mf_portfolio(nav_data, period_days) ==
    IF Len(nav_data) > period_days
    THEN PeriodReturn(nav_data[1], nav_data[period_days + 1])
    ELSE NoReturn("no_data")

ExecuteMutualFundAnalysis ==
    /\ call.pc = "called"
    /\ call.tool = "mutual_fund_analysis"
    /\ LET in == call.input IN
       call' = [call EXCEPT
                  !.pc = "returned",
                  !.output =
                     CASE in.action = "get_nav" ->
                              get_nav_data(in.nav_data, in.period_days)
                       [] in.action = "compare" ->
                              compare_mutual_funds(in.nav_data, in.period_days)
                       [] in.action = "portfolio_analysis" ->
                              analyze_mf_portfolio(in.nav_data, in.period_days)]
    /\ UNCHANGED <<storeVars, poolVars, req, reply, chats, legacy>>

\* most words in a company name
MaxNameWords == 2

\* a name is the sequence of its words; the first entries of the two static
\* tables of execute_stock_symbol_search, in the order of the dict literals
indian_companies ==
    <<[name |-> <<"reliance", "industries">>, symbol |-> "RELIANCE.NS"],
      [name |-> <<"reliance">>, symbol |-> "RELIANCE.NS"],
      [name |-> <<"tcs">>, symbol |-> "TCS.NS"]>>
us_companies ==
    <<[name |-> <<"apple">>, symbol |-> "AAPL"],
      [name |-> <<"apple", "inc">>, symbol |-> "AAPL"],
      [name |-> <<"tesla">>, symbol |-> "TSLA"]>>

\* execute_stock_symbol_search is called with company_name and market
SymbolCalls ==
    [pc : {"called"}, tool : {"stock_symbol_search"},
     input : [company_name :
                 UNION {[1..n -> {"Apple", "apple", "Inc", "Reliance", "industries",
                                  "TCS", "ltd"}] : n \in 0..MaxNameWords},
              market : {"IN", "US", "AUTO"}],
     output : {NoneValue}]

\* company_name.lower()
company_lower(company_name) ==
    [i \in 1..Len(company_name) |->
        CASE company_name[i] = "Apple" -> "apple"
          [] company_name[i] = "Inc" -> "inc"
          [] company_name[i] = "Reliance" -> "reliance"
          [] company_name[i] = "TCS" -> "tcs"
          [] OTHER -> company_name[i]]

\* a in b, for names
NameIn(a, b) ==
    \E i \in 0..(Len(b) - Len(a)) : SubSeq(b, i + 1, i + Len(a)) = a

\* the results of the exact lookup in one table, and of the partial match on
\* it (the first entry that contains the name or is contained in it)
ExactMatch(table, tag, lower) ==
    LET hits == {i \in 1..Len(table) : table[i].name = lower} IN
    IF hits = {} THEN <<>>
    ELSE <<[symbol |-> table[CHOOSE i \in hits : TRUE].symbol, table |-> tag,
            confidence |-> "high"]>>

PartialMatch(table, tag, lower) ==
    LET hits == {i \in 1..Len(table) :
                    NameIn(lower, table[i].name) \/ NameIn(table[i].name, lower)} IN
    IF hits = {} THEN <<>>
    ELSE <<[symbol |-> table[CHOOSE i \in hits : \A j \in hits : i <= j].symbol,
            table |-> tag, confidence |-> "medium"]>>

\* execute_stock_symbol_search(console, company_name, market): the list results
execute_stock_symbol_search(company_name, market) ==
    LET lower == company_lower(company_name)
        exact == (IF market \in {"IN", "AUTO"}
                  THEN ExactMatch(indian_companies, "IN", lower) ELSE <<>>)
                 \o (IF market \in {"US", "AUTO"}
                     THEN ExactMatch(us_companies, "US", lower) ELSE <<>>)
    IN IF exact # <<>> THEN exact
       ELSE PartialMatch(indian_companies, "IN", lower)
            \o PartialMatch(us_companies, "US", lower)

ExecuteStockSymbolSearch ==
    /\ call.pc = "called"
    /\ call.tool = "stock_symbol_search"
    /\ call' = [call EXCEPT
                  !.pc = "returned",
                  !.output = execute_stock_symbol_search(call.input.company_name,
                                                         call.input.market)]
    /\ UNCHANGED <<storeVars, poolVars, req, reply, chats, legacy>>

InitTools ==
    /\ InitStore /\ InitPool
    /\ req = IdleReq /\ reply = NoReply /\ chats = 0
    /\ legacy = NoLegacySession(1)
    /\ call \in SearchCalls \cup NavCalls \cup SymbolCalls

NextTools ==
    \/ ExecuteWebSearch
    \/ ExecuteMutualFundAnalysis
    \/ ExecuteStockSymbolSearch

SpecTools == InitTools /\ [][NextTools]_vars

----------------------------------------------------------------------------
(* SpecConcurrent: chat requests of api_server.py for one session that are *)
(* in flight together.  chat_with_ai is a coroutine: it runs without       *)
(* interruption up to an await, and its awaits are the run_in_executor     *)
(* calls that execute a tool; chat.send_message is a blocking call.        *)
(* A round whose tool is a financial dataset already cached has no await;  *)
(* the rounds here are those of a tool that is awaited.                    *)

\* most chat requests in flight together
MaxConcurrent == 2

\* no request has started: nothing was sent on session_data["chat_instance"]
NoRequests ==
    [handle |-> <<>>,
     reqs |-> [i \in 1..MaxConcurrent |->
                 [pc |-> "idle", current_round |-> 0, function_calls |-> <<>>]]]

\* what chat.send_message(content) appends to the history of the chat handle:
\* the content request i sent and the response of the LLM to it
Sent(handle, i, kind, answer) ==
    handle \o <<[req |-> i, kind |-> kind, calls |-> <<>>],
                [req |-> i, kind |-> "response", calls |-> answer.calls]>>

\* lines 776-797 for request r with response = answer: the request awaits the
\* tool of the round, or leaves the loop and returns
ConcurrentLoop(r, answer) ==
    IF r.current_round < legacy_max_rounds /\ answer.kind = "calls"
    THEN [pc |-> "tools", current_round |-> r.current_round + 1,
          function_calls |-> answer.calls]
    ELSE [r EXCEPT !.pc = "done"]

\* request i arrives and runs up to its first await: the authentication check,
\* the chat instance of the session, chat.send_message(request.message)
ConcurrentChatBegin(i, auth, answer) ==
    /\ legacy.exists
    /\ call.reqs[i].pc = "idle"
    /\ auth \in LegacyAuthResponses
    /\ answer \in {a \in LegacyAnswers : a.kind \in {"calls", "text"}}
    /\ LET checked == legacy_check_session_authentication(Delivered(legacy), auth) IN
       /\ legacy' = IF checked.ok THEN [checked.session EXCEPT !.has_chat = TRUE]
                    ELSE [checked.session EXCEPT !.status = 401]
       /\ call' = IF checked.ok
                  THEN [call EXCEPT
                          !.handle = Sent(call.handle, i, "user", answer),
                          !.reqs[i] = ConcurrentLoop(call.reqs[i], answer)]
                  ELSE [call EXCEPT !.reqs[i].pc = "done"]
    /\ UNCHANGED <<storeVars, poolVars, req, reply, chats>>

\* the tool request i awaited has returned: the request sends its tool
\* responses with chat.send_message(tool_responses) and goes round the loop
ConcurrentToolRound(i, answer) ==
    /\ call.reqs[i].pc = "tools"
    /\ answer \in {a \in LegacyAnswers : a.kind \in {"calls", "text"}}
    /\ call' = [call EXCEPT
                  !.handle = Sent(call.handle, i, "tool_responses", answer),
                  !.reqs[i] = ConcurrentLoop(call.reqs[i], answer)]
    /\ legacy' = Delivered(legacy)
    /\ UNCHANGED <<storeVars, poolVars, req, reply, chats>>

InitConcurrent ==
    /\ InitStore /\ InitPool
    /\ req = IdleReq /\ reply = NoReply /\ chats = 0
    /\ legacy = NoLegacySession(1)
    /\ call = NoRequests

NextConcurrent ==
    \/ LegacyCreate("ok")
    \/ \E i \in 1..MaxConcurrent, auth \in LegacyAuthResponses, a \in LegacyAnswers :
          ConcurrentChatBegin(i, auth, a)
    \/ \E i \in 1..MaxConcurrent, a \in LegacyAnswers : ConcurrentToolRound(i, a)

SpecConcurrent == InitConcurrent /\ [][NextConcurrent]_vars

----------------------------------------------------------------------------
(* SpecTeardown: the process of api_server_new.py serves chat requests and *)
(* is then shut down.  The app is built with lifespan=lifespan and also    *)
(* registers shutdown_cleanup with on_event("shutdown"); the framework     *)
(* runs the exit part of lifespan, and whether it calls the on_event       *)
(* handler before it is the framework's choice.                            *)

\* the process is serving: the worker pool is up, no http_session was closed
Serving ==
    [pc |-> "serving", suspended |-> {}, handles |-> {}, closed |-> {},
     executor_shutdown |-> FALSE, error |-> "None"]

\* the http_session objects of the sessions in the store
OpenHandles == {sessions[s].http_session : s \in DOMAIN sessions}

\* the event loop leaves the chat request suspended at
\* 'await execute_tools_parallel(...)' and is free for other requests
SuspendRequest ==
    /\ req.pc = "await"
    /\ call' = [call EXCEPT !.suspended = @ \cup {req.workflow_id}]
    /\ req' = IdleReq
    /\ UNCHANGED <<storeVars, poolVars, reply, chats, legacy>>

\* lines 3060-3077: shutdown_cleanup
shutdown_cleanup ==
    /\ call.pc = "serving"
    /\ active_workflows' = EmptyMap
    /\ conversation_contexts' = EmptyMap
    /\ sessions' = EmptyMap
    /\ call' = [call EXCEPT !.pc = "events_done", !.handles = OpenHandles,
                            !.closed = OpenHandles, !.executor_shutdown = TRUE]
    /\ UNCHANGED <<inits, poolVars, req, reply, chats, legacy>>

\* the dict after 'for workflow_id in d.keys(): del d[workflow_id]': the first
\* key (the oldest entry) is deleted, then the iterator finds the size changed
DelWhileIterating(d) ==
    LET first == CHOOSE w \in DOMAIN d : \A v \in DOMAIN d : w <= v
    IN [w \in DOMAIN d \ {first} |-> d[w]]

\* lines 320-326: the part of lifespan after the yield
lifespan ==
    /\ call.pc \in {"serving", "events_done"}
    /\ LET raised == DOMAIN active_workflows # {}
           handles == IF call.pc = "serving" THEN OpenHandles ELSE call.handles
       IN /\ active_workflows' = IF raised THEN DelWhileIterating(active_workflows)
                                 ELSE active_workflows
          /\ call' = [call EXCEPT
                        !.pc = "stopped", !.handles = handles,
                        !.error = IF raised THEN "RuntimeError" ELSE "None",
                        !.executor_shutdown = IF raised THEN @ ELSE TRUE]
    /\ UNCHANGED <<sessions, conversation_contexts, inits, poolVars, req, reply,
                   chats, legacy>>

InitTeardown ==
    /\ InitStore /\ InitPool
    /\ req = IdleReq /\ reply = NoReply /\ chats = 0
    /\ legacy = NoLegacySession(1)
    /\ call = Serving

\* the process still serves requests
IsServing == call.pc = "serving"

NextTeardown ==
    \/ \E s \in SessionIds : IsServing /\ CreateSession(s, "ok")
    \/ \E s \in SessionIds, m \in Messages : IsServing /\ ChatStart(s, "None", m)
    \/ \E a \in LlmAnswers : IsServing /\ LlmFirst(a)
    \/ IsServing /\ SuspendRequest
    \/ \E a \in {x \in LlmAnswers : x.kind = "text"} : IsServing /\ LlmFinal(a)
    \/ IsServing /\ ChatFinish
    \/ shutdown_cleanup
    \/ lifespan

SpecTeardown == InitTeardown /\ [][NextTeardown]_vars

----------------------------------------------------------------------------
(* SpecRouting: chat requests with every workflow hint and every message,  *)
(* the LLM answering with text                                             *)

\* the ChatRequest of the behaviour: request.workflow_hint and request.message
ChatRequests == [pc : {"request"}, hint : Hints, message : Messages]

\* POST /session/{session_id}/chat with the request of the behaviour
RoutedChat(session_id) == ChatStart(session_id, call.hint, call.message)

InitRouting ==
    /\ InitStore /\ InitPool
    /\ req = IdleReq /\ reply = NoReply /\ chats = 0
    /\ legacy = NoLegacySession(1)
    /\ call \in ChatRequests

NextRouting ==
    \/ \E s \in SessionIds : CreateSession(s, "ok")
    \/ \E s \in SessionIds : RoutedChat(s)
    \/ \E a \in {x \in LlmAnswers : x.kind = "text"} : LlmFirst(a)
    \/ \E a \in {x \in LlmAnswers : x.kind = "text"} : LlmFinal(a)
    \/ ChatFinish

SpecRouting == InitRouting /\ [][NextRouting]_vars

----------------------------------------------------------------------------
(* SpecHistory: one session of api_server.py that answers a long row of    *)
(* chat requests                                                           *)

\* most chat requests in one behaviour of SpecHistory
MaxHistoryChats == 21

NextHistory ==
    \/ LegacyCreate("ok")
    \/ \E auth \in {r \in LegacyAuthResponses : r.kind = "200_result"},
          a \in {x \in LegacyAnswers : x.kind = "text" \/ Len(x.calls) = 1} :
            LegacyChatBeginUpTo(MaxHistoryChats, auth, a)
    \/ \E r \in {x \in LegacyResponses : x.kind = "200_result" /\ x.result = Data1},
          a \in {x \in LegacyAnswers : x.kind = "text"} : LegacyToolRound(r, a)

SpecHistory == InitChatSpec /\ [][NextHistory]_vars

----------------------------------------------------------------------------
(* SpecNotFound: both servers with requests for a session id that was never *)
(* created, whose creation failed, or (api_server.py) that was deleted      *)

NextNotFound ==
    \/ \E s \in SessionIds, r \in InitResponses : CreateSession(s, r)
    \/ \E s \in SessionIds \cup {"s0"}, e \in NewEndpoints : SessionNotFound(s, e)
    \/ \E s \in SessionIds, recent \in BOOLEAN : SessionStatus(s, recent)
    \/ \E r \in InitResponses : LegacyCreate(r)
    \/ LegacyDelete
    \/ \E e \in LegacyPathEndpoints \cup LegacyFrontendEndpoints : LegacyNotFound(e)

SpecNotFound == InitChatSpec /\ [][NextNotFound]_vars

----------------------------------------------------------------------------
(* C2 (SpecDispatch): in a batch that did not time out, the dispatcher     *)
(* returns one ToolExecution per requested call, in request order; a call  *)
(* whose handler raised carries error != None, every other call is a       *)
(* successful ToolExecution, so a raising handler removes no sibling.       *)
BatchIsolation ==
    (batch.state = "returned" /\ ~batch.timed_out) =>
        /\ Len(batch.executions) = Len(batch.calls)
        /\ \A i \in 1..Len(batch.executions) :
              LET e == batch.executions[i] IN
              /\ e.tool_name = batch.calls[i]
              /\ e.handler_raised => (e.error # NoError /\ ~is_successful(e))
              /\ ~e.handler_raised => is_successful(e)

(* C3 (SpecDispatch): one execute_mcp_tool invocation re-initialises the   *)
(* remote session at most once and sends at most two tools/call requests.  *)
SingleReinitRetry ==
    \A id \in TaskIds : tasks[id].reinits <= 1 /\ tasks[id].sent <= 2

(* C7 (SpecDispatch): when the remote service demands authentication for a *)
(* tool call (HTTP 401 or a login_required payload in either shape), the   *)
(* ToolExecution handed to the workflow is not a successful tool result.   *)
LoginRequiredNeverSuccessful ==
    batch.state = "returned" =>
        \A i \in 1..Len(batch.executions) :
            is_login_required(batch.executions[i].result)
                => ~is_successful(batch.executions[i])

(* C8 (SpecDispatch): execute_mcp_tool applies the login-required detector *)
(* to every unwrapped RPC result: a finished financial tool call whose     *)
(* payload the detector classifies as login-required (in either shape) has *)
(* returned the login-required status itself, not the payload as a result. *)
GatewayDetectsLoginRequired ==
    \A id \in TaskIds :
        (tasks[id].pc = "done" /\ tasks[id].tool_name \in FI_TOOL_DEFINITIONS
            /\ is_login_required(tasks[id].result))
        => tasks[id].result.status = "login_required"

(* C1 (SpecChat): an orchestrator-workers workflow makes at most max_rounds *)
(* (3) tool-dispatch rounds whatever the LLM answers, makes its synthesis   *)
(* turn once and only after the last round, and returns with a final_result *)
(* that is not None; the synthesis turn is missing only when a send_message *)
(* call itself raised, and then final_result is the error string.           *)
OrchestratorTerminates ==
    req.function = "orchestrator_workers" =>
        /\ req.dispatches <= max_rounds
        /\ req.current_round <= max_rounds
        /\ req.llm_turns <= max_rounds + 2
        /\ req.synthesis_turns <= 1
        /\ req.synthesis_turns = 1 => req.pc = "post"
        /\ req.pc = "post" =>
              /\ req.final_result # NoResult
              /\ ~req.llm_failed => req.synthesis_turns = 1
              /\ req.llm_failed => IsErrorResult(req.final_result)

\* the LLM asked for tools after every turn: three rounds, then the synthesis turn
OrchestratorTerminatesWitness ==
    /\ req.function = "orchestrator_workers"
    /\ req.pc = "post"
    /\ req.dispatches = max_rounds
    /\ req.llm_turns = max_rounds + 2
    /\ req.synthesis_turns = 1
    /\ req.final_result # NoResult

(* C6 (SpecChat): the workflow of a chat request is registered in          *)
(* active_workflows only while the request runs: after the request has     *)
(* finished no workflow of it remains; an exception inside the workflow    *)
(* function is caught there and final_result is the error string.          *)
WorkflowsRemoved ==
    /\ req.pc = "idle" => DOMAIN active_workflows = {}
    /\ req.pc # "idle" => DOMAIN active_workflows = {req.workflow_id}
    /\ reply.op = "chat" => reply.workflow_id \notin DOMAIN active_workflows
    /\ (req.pc = "post" /\ req.caught) => IsErrorResult(req.final_result)
    /\ (req.caught \/ req.llm_failed) => req.pc = "post"

\* a request whose workflow raised has finished, with the error string as its answer
WorkflowsRemovedWitness ==
    /\ req.pc = "idle"
    /\ reply.op = "chat"
    /\ reply.status = 200
    /\ IsErrorResult(reply.response)
    /\ reply.total_tools > 0
    /\ DOMAIN active_workflows = {}

(* C9 (SpecChat): every entry of a session's financial_data is keyed by a  *)
(* fixed financial tool name and holds a successful raw result: never an   *)
(* error envelope, never a login-required payload.                         *)
CacheHoldsOnlySuccessfulResults ==
    \A s \in DOMAIN sessions :
        \A t \in DOMAIN sessions[s].financial_data :
            /\ t \in FI_TOOL_DEFINITIONS
            /\ ~HasErrorKey(sessions[s].financial_data[t])
            /\ ~is_login_required(sessions[s].financial_data[t])

(* C10 (SpecChat): a cached financial_data entry is never removed, and a   *)
(* step that replaces the remote session (re-initialisation) leaves the    *)
(* session's cached data, authentication state, counters and conversation  *)
(* history as they were.                                                   *)
ReinitLeavesSessionState ==
    [][\A s \in DOMAIN sessions :
          /\ s \in DOMAIN sessions'
          /\ DOMAIN sessions[s].financial_data \subseteq DOMAIN sessions'[s].financial_data
          /\ sessions'[s].http_session # sessions[s].http_session =>
                /\ sessions'[s].financial_data = sessions[s].financial_data
                /\ sessions'[s].authenticated = sessions[s].authenticated
                /\ sessions'[s].total_tool_calls = sessions[s].total_tool_calls
                /\ sessions'[s].successful_tool_calls = sessions[s].successful_tool_calls
                /\ conversation_contexts'[s].turns = conversation_contexts[s].turns]_vars

(* C4 (SpecSession): while a session holds a cached successful result for  *)
(* a financial tool, a dispatch of that tool sends no request to the       *)
(* remote service and returns the cached payload.                          *)
CachedToolNotRefetched ==
    \A id \in TaskIds :
        LET t == tasks[id] IN
        (/\ t.session_id \in DOMAIN sessions
         /\ t.tool_name \in DOMAIN sessions[t.session_id].financial_data
         /\ ~HasErrorKey(sessions[t.session_id].financial_data[t.tool_name])
         /\ ~is_login_required(sessions[t.session_id].financial_data[t.tool_name]))
        => /\ t.sent = 0
           /\ t.pc = "done" => t.result = sessions[t.session_id].financial_data[t.tool_name]

(* C5 (SpecLegacy): at every user turn of a chat the context the chat      *)
(* instance carries is the one the session's financial_data renders to at  *)
(* that moment: after a change of the data by a chat dispatch or by the    *)
(* prefetch operation the pre-change context is not reused.                *)
ContextFollowsFinancialData ==
    legacy.turns > 0 => legacy.turn_fresh

(* C11 (SpecChat): when the timeout of a batch elapses before all its calls  *)
(* have completed, the dispatch returns the empty list: no execution of     *)
(* that batch, a completed one included, is among the executions the        *)
(* workflow records or among those whose results go to the LLM.             *)
TimedOutBatchDiscarded ==
    /\ \A i \in 1..Len(req.tool_executions) :
          req.tool_executions[i].parallel_group \notin req.timed_out_groups
    /\ \A i \in 1..Len(req.feedback) :
          req.feedback[i].parallel_group \notin req.timed_out_groups
    /\ (req.pc \in {"llm_feedback", "llm_final"} /\ batch.bno \in req.timed_out_groups)
          => req.feedback = <<>>

\* a request has ended whose only batch timed out after one of its calls completed
TimedOutBatchDiscardedWitness ==
    /\ req.pc = "post"
    /\ req.dispatches = 1
    /\ req.dropped > 0
    /\ req.tool_executions = <<>>

(* C12 (SpecChat): every tool call of a turn that failed (its handler       *)
(* returned an error envelope, it raised, or its batch timed out) is among  *)
(* the tools reported in the chat response with success = false and is      *)
(* counted in failed_tools.                                                 *)
FailedCallsSurfaced ==
    reply.op = "chat" =>
        /\ reply.failed_tools >= reply.failed_calls
        /\ Cardinality({i \in 1..Len(reply.tools_used) : ~reply.tools_used[i].success})
              >= reply.failed_calls

(* C13 (SpecDispatch): a ToolExecution whose end_time is set has exactly    *)
(* one of result and error set, and it is successful exactly if error is   *)
(* None and result is not None.                                             *)
ExactlyOneOfResultAndError ==
    batch.state = "returned" =>
        \A i \in 1..Len(batch.executions) :
            LET e == batch.executions[i] IN
            e.end_time_set =>
                /\ (e.result # NoneValue) # (e.error # NoError)
                /\ is_successful(e) <=> (e.error = NoError /\ e.result # NoneValue)

(* C14 (SpecChat): the executions a batch returns, and the tool responses   *)
(* built from them for the next LLM turn, are in request order: position i *)
(* belongs to call i and carries its tool name, in whatever order the      *)
(* calls completed.                                                         *)
RequestOrderKept ==
    (/\ req.pc = "llm_feedback"
     /\ batch.bno \notin req.timed_out_groups) =>
        LET n == Len(req.asked)
            m == Len(req.tool_executions)
        IN /\ Len(req.feedback) = n
           /\ m >= n
           /\ \A i \in 1..n :
                 /\ req.feedback[i].tool_name = req.asked[i]
                 /\ req.tool_executions[m - n + i] = req.feedback[i]

\* the second call of a batch completed first; the responses are in request order
RequestOrderKeptWitness ==
    /\ req.pc = "llm_feedback"
    /\ Len(req.feedback) = 2
    /\ req.feedback[1].arrival = 2
    /\ req.feedback[2].arrival = 1
    /\ req.feedback[1].tool_name = req.asked[1]

(* C15 (SpecChat): the simple-response, parallelization and prompt-chaining *)
(* workflows dispatch at most one batch per user message and end with a    *)
(* final_result even if the LLM asks for tools in every turn; tool calls   *)
(* asked for after that batch are not dispatched, and the analysis turn of *)
(* prompt chaining (the synthesis turn of parallelization) is the last LLM *)
(* turn.                                                                    *)
SingleBatchWorkflows ==
    req.function \in {"simple_response", "parallelization", "prompt_chaining"} =>
        /\ req.dispatches <= 1
        /\ req.llm_turns <= 3
        /\ req.call_answers <= req.llm_turns
        /\ req.synthesis_turns <= 1
        /\ req.synthesis_turns = 1 => req.pc = "post"
        /\ req.pc = "post" => req.final_result # NoResult
        /\ req.pc = "await" => req.dispatches = 1

\* prompt chaining: the LLM asked for tools in each of its three turns, one batch
\* was dispatched and the request ended with a final_result
SingleBatchWorkflowsWitness ==
    /\ req.function = "prompt_chaining"
    /\ req.pc = "post"
    /\ req.call_answers = 3
    /\ req.llm_turns = 3
    /\ req.dispatches = 1
    /\ req.final_result # NoResult

(* C16 (SpecLegacy): a chat request on an existing session returns normally *)
(* with its answer text whatever the tools and the LLM do: it never ends    *)
(* with an error status because a tool or the provider failed or because    *)
(* the round bound was reached with the LLM still asking for tools.         *)
ChatReturnsNormally ==
    legacy.status # 500

(* C17 (SpecGateway): execute_mcp_tool never raises to its caller: for      *)
(* every HTTP status, RPC error, malformed body, timeout or connection      *)
(* error it returns a value: a result, the login-required status or an      *)
(* error envelope with the cause.                                           *)
GatewayNeverRaises ==
    /\ call.pc # "raised"
    /\ call.pc = "returned" =>
          \/ call.value = LoginTop
          \/ HasErrorKey(call.value)
          \/ (call.resp.kind = "200_result" /\ call.value = call.resp.result)

(* C18 (SpecAuth): a created session has authenticated = False, and while   *)
(* the remote service answers fetch_net_worth with a demand to log in the   *)
(* session is reported as not authenticated and a chat request on it        *)
(* returns without throwing; no session is reported authenticated without   *)
(* a remote probe that succeeded.                                           *)
UnauthenticatedWhileLoginRequired ==
    /\ \A s \in DOMAIN sessions : ~sessions[s].authenticated
    /\ reply.op = "status" => ~reply.authenticated
    /\ reply.op = "chat" => reply.status = 200

(* C19 (SpecLegacy): while the cache window since last_auth_check has not   *)
(* elapsed, an authentication check returns the cached flag, true or       *)
(* false, without asking the remote service; the probe is made only after  *)
(* the window has elapsed, and it stores both the flag and the time.        *)
AuthCheckUsesCache ==
    /\ legacy.last_check # "probe_in_window"
    /\ legacy.last_check = "probe_after_window" => legacy.last_auth_check = legacy.now

(* C20 (SpecChat): when initialize fails during session-create (an error in *)
(* the answer, an exception of the transport, or no usable session id),     *)
(* creation ends with an error and the store holds no entry for the new     *)
(* session id, neither in sessions nor in conversation_contexts.            *)
FailedCreateLeavesNoSession ==
    (reply.op = "create" /\ reply.status = 500) =>
        \A s \in SessionIds :
            s \notin DOMAIN sessions /\ s \notin DOMAIN conversation_contexts

\* a create failed after initialize_mcp_session had stored the session
FailedCreateLeavesNoSessionWitness ==
    /\ reply.op = "create"
    /\ reply.status = 500
    /\ reply.stored
    /\ sessions = EmptyMap
    /\ conversation_contexts = EmptyMap

HistoryBounded ==
    /\ Len(legacy.chat_history) <= MAX_CONTEXT_HISTORY * 2
    /\ \A s \in DOMAIN conversation_contexts :
          LET turns == conversation_contexts[s].turns IN
          /\ Len(turns) <= MAX_CONTEXT_HISTORY * 2
          /\ \A i \in 1..(Len(turns) - 1) : turns[i] # turns[i + 1]

(* C23 (SpecTools): execute_web_search never raises and answers with the   *)
(* text of the first strategy, in the order Google, SerpAPI, enhanced       *)
(* financial search, that has its credentials and whose request yields      *)
(* results; a strategy without credentials or whose request fails passes    *)
(* to the next one, and when none is left the static responder answers.     *)
SearchChainDegrades ==
    (call.pc = "returned" /\ call.tool = "web_search" /\ ~call.input.query_empty) =>
        LET in == call.input IN
        call.output.strategy =
            IF in.google_keys /\ in.google = "items" THEN "google"
            ELSE IF in.serp_key /\ in.serp = "items" THEN "serp"
            ELSE IF in.enhanced_available /\ in.financial /\ in.enhanced = "long"
            THEN "enhanced"
            ELSE "static"

(* C24 (SpecRouting): the workflow that runs for a chat request, and the    *)
(* workflow_used of its response, is the request's workflow hint when it    *)
(* has one, whatever the message; without a hint it is the workflow that    *)
(* categorize_user_intent selects, simple_response when no keyword matches. *)
HintSelectsWorkflow ==
    LET selected == IF call.hint # "None" THEN call.hint
                    ELSE categorize_user_intent(call.message)
    IN /\ req.pc # "idle" => req.function = selected
       /\ reply.op = "chat" => reply.workflow_used = selected

(* C25 (SpecTools): for a NAV history with more than period_days entries,  *)
(* each of the get_nav, compare and portfolio_analysis actions reports the  *)
(* return (latest - old) / old * 100, old being the NAV period_days entries *)
(* after the latest one; for the history [100, 110] and period_days = 1     *)
(* that is -9.09 percent.                                                   *)
PeriodReturnRule ==
    (call.pc = "returned" /\ call.tool = "mutual_fund_analysis"
     /\ Len(call.input.nav_data) > call.input.period_days) =>
        LET nav_data == call.input.nav_data
            period_days == call.input.period_days
        IN /\ call.output = PeriodReturn(nav_data[1], nav_data[period_days + 1])
           /\ (nav_data = <<100, 110>> /\ period_days = 1) => call.output.value = -909

(* C26 (SpecTools): every candidate of stock_symbol_search is an entry of   *)
(* the table of a requested market (IN, US, or both for AUTO), and it has   *)
(* confidence "high" only when the company name, in lower case, is a key    *)
(* of that table; a name that matches a key only as a substring gets        *)
(* "medium" candidates or none.                                             *)
SymbolCandidatesFromRequestedMarket ==
    (call.pc = "returned" /\ call.tool = "stock_symbol_search") =>
        LET lower == company_lower(call.input.company_name)
            requested == IF call.input.market = "AUTO" THEN {"IN", "US"}
                         ELSE {call.input.market}
            keys(tag) == LET table == IF tag = "IN" THEN indian_companies
                                      ELSE us_companies
                         IN {table[i].name : i \in 1..Len(table)}
        IN \A i \in 1..Len(call.output) :
              /\ call.output[i].table \in requested
              /\ call.output[i].confidence = "high"
                    => lower \in keys(call.output[i].table)

(* C27 (SpecLegacy): in a tool round of the chat loop every function call   *)
(* of the LLM's answer is executed once, in the order asked, and one tool   *)
(* response per call is sent back: as many responses as calls, and the     *)
(* tools that ran are the tools asked for, which are those reported as     *)
(* used.                                                                   *)
EveryCallExecutedAndAnswered ==
    legacy.round # NoRound =>
        /\ Len(legacy.round.tool_responses) = Len(legacy.round.function_calls)
        /\ legacy.round.tool_responses = legacy.round.function_calls
        /\ legacy.round.executed = legacy.round.function_calls

(* C28 (SpecConcurrent): with two chat requests of one session in flight,   *)
(* while a request waits for the tools its LLM response asked for, the last *)
(* message on the session's chat handle is still that response (the other   *)
(* request has sent nothing), and every tool-response message on the handle *)
(* comes right after the function-call response of the same request.        *)
TurnsStaySequential ==
    LET handle == call.handle IN
    /\ \A i \in 1..MaxConcurrent :
          call.reqs[i].pc = "tools" =>
              /\ handle[Len(handle)].req = i
              /\ handle[Len(handle)].calls = call.reqs[i].function_calls
    /\ \A k \in 1..Len(handle) :
          handle[k].kind = "tool_responses" =>
              /\ handle[k - 1].kind = "response"
              /\ handle[k - 1].req = handle[k].req
              /\ handle[k - 1].calls # <<>>

(* C29 (SpecChat): once the chat request has returned, a step of a tool     *)
(* thread it started -- a thread a timed-out batch left running -- changes  *)
(* neither the session dict (remote handle, cached financial data,          *)
(* counters) nor the conversation context of any session.                   *)
ReturnedRequestKeepsSession ==
    [][(req.pc = "idle" /\ chats > 0 /\ tasks' # tasks) =>
          /\ sessions' = sessions
          /\ conversation_contexts' = conversation_contexts]_vars

(* C30 (SpecTeardown): teardown of the process ends without an error for    *)
(* any number of workflows in active_workflows; after it active_workflows   *)
(* is empty, the http_session of every session is closed and the worker     *)
(* pool is shut down.                                                       *)
TeardownCompletes ==
    call.pc = "stopped" =>
        /\ call.error = "None"
        /\ DOMAIN active_workflows = {}
        /\ call.handles \subseteq call.closed
        /\ call.executor_shutdown

====
